---- MODULE Spec2Model ----
(***************************************************************************)
(* Model of server/app.py of the recipe matcher: the storage tables        *)
(* (devices, recipes, saved_recipes, users) with their unique constraints, *)
(* the request handlers /api/save, /api/history, /api/clear, /api/suggest  *)
(* and /auth/*.  Handlers run on worker processes; each database statement *)
(* (query, insert+commit, bulk delete+commit) is one atomic step, and the  *)
(* local computation of a handler is folded into the statement after it.   *)
(*                                                                         *)
(* Text is modelled as a sequence of one-character strings, so that        *)
(* strip(), lower() and slicing are computed, not assumed.                 *)
(* Request bodies are drawn from the documented JSON schema (text fields   *)
(* are strings, time/serves are integers); a missing field and an empty or *)
(* zero one are the same value, since the handlers read them with `or`.    *)
(* What the provider answers to /api/suggest is not trusted: it is any     *)
(* JSON value, or an exception.                                            *)
(*                                                                         *)
(* Four specifications share the state:                                    *)
(*   Spec        two workers racing save, history and clear on one recipe  *)
(*               content;                                                  *)
(*   SpecSeq     one worker, one request at a time, every recipe input,    *)
(*               and the clock;                                            *)
(*   SpecAuth    two workers, each serving one browser, on /auth/*;        *)
(*   SpecSuggest one worker on /api/suggest, provider configured or not.   *)
(***************************************************************************)
EXTENDS Integers, Sequences, FiniteSets, TLC

VARIABLES
    devices,      \* table devices: set of [id, device_id]
    recipes,      \* table recipes: set of [id, title, desc, time, serves, level, img, signature]
    links,        \* table saved_recipes: set of [device_id_fk, recipe_id_fk, created_at]
    users,        \* table users: set of [id, name, email, password_hash]
    session,      \* worker |-> the uid in the session cookie of the browser it serves (0: none)
    now,          \* the reading of dt.datetime.utcnow as stored in a DateTime column
    client,       \* whether the OpenAI client was configured at start-up
    pc,           \* worker |-> position in the handler it runs
    req,          \* worker |-> the request it handles
    loc,          \* worker |-> handler locals: [d, rec]
    resp,         \* worker |-> the response of its last finished request
    linkAtStart,  \* history: worker |-> the link of a save existed when it began
    savedOrder,   \* history: device pk |-> recipe ids in the order their links were inserted
    justCleared   \* history: device pks cleared with no link inserted since

vars == <<devices, recipes, links, users, session, now, client, pc, req, loc, resp,
          linkAtStart, savedOrder, justCleared>>

(***************************************************************************)
(* Bounds                                                                  *)
(***************************************************************************)
MaxClock == 1

Procs == {"w1", "w2"}

(***************************************************************************)
(* Text helpers                                                            *)
(***************************************************************************)
Str(c, n) == [i \in 1..n |-> c]

SetMin(S) == CHOOSE x \in S : \A y \in S : x <= y

SetMax(S) == CHOOSE x \in S : \A y \in S : x >= y

\* str.lower on the alphabet the inputs use
LowerChar(c) ==
    CASE c = "S" -> "s"
      [] c = "H" -> "h"
      [] c = "A" -> "a"
      [] OTHER -> c

Lower(s) == [i \in 1..Len(s) |-> LowerChar(s[i])]

\* str.strip: drops leading and trailing blanks
Strip(s) ==
    LET keep == {i \in 1..Len(s) : s[i] # " "}
    IN  IF keep = {} THEN <<>> ELSE SubSeq(s, SetMin(keep), SetMax(keep))

\* s[:n]
Take(s, n) == SubSeq(s, 1, IF Len(s) < n THEN Len(s) ELSE n)

\* x or default
OrElse(x, default) == IF x = <<>> THEN default ELSE x

OrElseInt(x, default) == IF x = 0 THEN default ELSE x

(***************************************************************************)
(* Column widths and limits of the program                                 *)
(***************************************************************************)
TITLE_MAX == 200

LEVEL_MAX == 16

SIGNATURE_MAX == 191

NAME_MAX == 120

HISTORY_LIMIT == 50

DEFAULT_TIME == 20

DEFAULT_SERVES == 2

(***************************************************************************)
(* Request inputs of /api/save, /api/history, /api/clear                   *)
(***************************************************************************)
\* device_id as sent; "" stands for a missing or empty one
DeviceIds == {"", "d1", "d2"}

RecipeIn(title, desc, time, serves, level, img) ==
    [title |-> title, desc |-> desc, time |-> time, serves |-> serves,
     level |-> level, img |-> img]

Soup == <<"S", "o", "u", "p">>

\* the "recipe" objects of the save requests, by name
RecipeInputs ==
    [plain  |-> RecipeIn(Soup, <<"h">>, 0, 0, <<>>, <<>>),
     spaced |-> RecipeIn(<<" ">> \o Lower(Soup), <<"H", " ">>, 30, 4, Str("e", 17), <<>>),
     long   |-> RecipeIn(Str("a", 191) \o <<"b">>, <<>>, 0, 0, <<>>, <<>>),
     longer |-> RecipeIn(Str("a", 200) \o <<"c">>, <<>>, 0, 0, <<>>, <<>>)]

RecipeNames == DOMAIN RecipeInputs

\* save(): the dict r built from recipe_in
BuildRecipe(rin) ==
    [title  |-> Take(OrElse(rin.title, <<"R", "e", "c", "i", "p", "e">>), TITLE_MAX),
     desc   |-> rin.desc,
     time   |-> OrElseInt(rin.time, DEFAULT_TIME),
     serves |-> OrElseInt(rin.serves, DEFAULT_SERVES),
     level  |-> Take(OrElse(rin.level, <<"E", "a", "s", "y">>), LEVEL_MAX),
     img    |-> rin.img]

_signature_of(r) ==
    LET title == Lower(Strip(r.title))
        desc  == Lower(Strip(r.desc))
        img   == Lower(Strip(r.img))
    IN  Take(title \o <<"|">> \o desc \o <<"|">> \o img, SIGNATURE_MAX)

\* r and sig of each request, computed once
Built == [name \in RecipeNames |-> BuildRecipe(RecipeInputs[name])]

Signature == [name \in RecipeNames |-> _signature_of(Built[name])]

(***************************************************************************)
(* Storage queries and constraints                                         *)
(***************************************************************************)
\* query(Device).filter_by(device_id=...).first(); 0 when there is none
FindDevice(device_id) ==
    IF \E d \in devices : d.device_id = device_id
    THEN (CHOOSE d \in devices : d.device_id = device_id).id
    ELSE 0

\* query(Recipe).filter_by(signature=sig).first(); 0 when there is none
FindRecipe(sig) ==
    IF \E r \in recipes : r.signature = sig
    THEN SetMin({r.id : r \in {x \in recipes : x.signature = sig}})
    ELSE 0

RecipeRow(id) == CHOOSE r \in recipes : r.id = id

\* faulty variant: the link lookup filters on the device only
FindLinkAnyRecipe(d, rec) == \E l \in links : l.device_id_fk = d

\* query(SavedRecipe).filter_by(device_id_fk=d, recipe_id_fk=rec).first()
FindLink(d, rec) == \E l \in links : l.device_id_fk = d /\ l.recipe_id_fk = rec

\* Device.device_id unique=True
DeviceIdTaken(device_id) == \E d \in devices : d.device_id = device_id

\* faulty variant: the signature column without its unique constraint
SignatureNotUnique(sig) == FALSE

\* Recipe.signature unique=True
SignatureTaken(sig) == \E r \in recipes : r.signature = sig

\* UniqueConstraint("device_id_fk", "recipe_id_fk")
LinkTaken(d, rec) == \E l \in links : l.device_id_fk = d /\ l.recipe_id_fk = rec

\* autoincrement primary key
NextId(table) == IF table = {} THEN 1 ELSE SetMax({r.id : r \in table}) + 1

LinksOf(d) == {l \in links : l.device_id_fk = d}

\* the primary key of the Device row of device_id in table devs (0: none)
DevicePk(devs, device_id) ==
    IF \E d \in devs : d.device_id = device_id
    THEN (CHOOSE d \in devs : d.device_id = device_id).id
    ELSE 0

\* the id of a Recipe row of the signature of recipe `name` in table recs (0: none)
RecipePk(recs, name) ==
    IF \E r \in recs : r.signature = Signature[name]
    THEN (CHOOSE r \in recs : r.signature = Signature[name]).id
    ELSE 0

Linked(lnks, d, rec) == \E l \in lnks : l.device_id_fk = d /\ l.recipe_id_fk = rec

(***************************************************************************)
(* Workers and responses                                                   *)
(***************************************************************************)
NoReq == [kind |-> "none"]

NoLoc == [d |-> 0, rec |-> 0]

NoResp == [status |-> 0]

\* an exception no handler catches: the framework answers 500
Unhandled500 == [status |-> 500, error |-> "internal_server_error"]

AlreadySaved == [status |-> 200, saved |-> FALSE, message |-> "Already saved"]

AlreadySavedId(rec) ==
    [status |-> 200, saved |-> FALSE, message |-> "Already saved", recipe_id |-> rec]

SavedTrue(rec) == [status |-> 200, saved |-> TRUE, recipe_id |-> rec]

MissingDevice == [status |-> 400, error |-> "missing device_id"]

\* a worker takes a request
Begin(p, r) ==
    /\ pc[p] = "idle"
    /\ req' = [req EXCEPT ![p] = r]

\* the handler returns `response`; its locals are gone
Finish(p, response) ==
    /\ pc' = [pc EXCEPT ![p] = "done"]
    /\ resp' = [resp EXCEPT ![p] = response]
    /\ loc' = [loc EXCEPT ![p] = NoLoc]

\* the handler goes on to statement `label` with locals d and rec
Goto(p, label, d, rec) ==
    /\ pc' = [pc EXCEPT ![p] = label]
    /\ resp' = [resp EXCEPT ![p] = NoResp]
    /\ loc' = [loc EXCEPT ![p] = [d |-> d, rec |-> rec]]

(***************************************************************************)
(* POST /api/save                                                          *)
(***************************************************************************)
\* request parsing, then _ensure_device's lookup
SaveStart(p, device_id, name) ==
    /\ Begin(p, [kind |-> "save", device_id |-> device_id, recipe |-> name])
    /\ linkAtStart' = [linkAtStart EXCEPT ![p] =
           /\ DevicePk(devices, device_id) # 0
           /\ RecipePk(recipes, name) # 0
           /\ Linked(links, DevicePk(devices, device_id), RecipePk(recipes, name))]
    /\ IF device_id = ""
       THEN Finish(p, MissingDevice)
       ELSE IF FindDevice(device_id) # 0
       THEN Goto(p, "save_recipe_query", FindDevice(device_id), 0)
       ELSE Goto(p, "save_device_insert", 0, 0)
    /\ UNCHANGED <<devices, recipes, links, users, session, now, client,
                   savedOrder, justCleared>>

\* _ensure_device: add, commit, refresh; outside save()'s try block
SaveDeviceInsert(p) ==
    /\ pc[p] = "save_device_insert"
    /\ IF DeviceIdTaken(req[p].device_id)
       THEN /\ Finish(p, Unhandled500)
            /\ UNCHANGED devices
       ELSE /\ devices' = devices \cup
                   {[id |-> NextId(devices), device_id |-> req[p].device_id]}
            /\ Goto(p, "save_recipe_query", NextId(devices), 0)
    /\ UNCHANGED <<recipes, links, users, session, now, client, req,
                   linkAtStart, savedOrder, justCleared>>

\* build r, compute sig, look the Recipe up by signature
SaveRecipeQuery(p) ==
    /\ pc[p] = "save_recipe_query"
    /\ LET rec == FindRecipe(Signature[req[p].recipe])
       IN  IF rec # 0
           THEN Goto(p, "save_link_query", loc[p].d, rec)
           ELSE Goto(p, "save_recipe_insert", loc[p].d, 0)
    /\ UNCHANGED <<devices, recipes, links, users, session, now, client, req,
                   linkAtStart, savedOrder, justCleared>>

\* add Recipe, commit, refresh; an IntegrityError is answered "Already saved"
SaveRecipeInsert(p) ==
    /\ pc[p] = "save_recipe_insert"
    /\ LET r   == Built[req[p].recipe]
           sig == Signature[req[p].recipe]
           id  == NextId(recipes)
       IN  IF SignatureTaken(sig)
           THEN /\ Finish(p, AlreadySaved)
                /\ UNCHANGED recipes
           ELSE /\ recipes' = recipes \cup
                       {[id |-> id, title |-> r.title, desc |-> r.desc, time |-> r.time,
                         serves |-> r.serves, level |-> r.level, img |-> r.img,
                         signature |-> sig]}
                /\ Goto(p, "save_link_query", loc[p].d, id)
    /\ UNCHANGED <<devices, links, users, session, now, client, req,
                   linkAtStart, savedOrder, justCleared>>

SaveLinkQuery(p) ==
    /\ pc[p] = "save_link_query"
    /\ IF FindLink(loc[p].d, loc[p].rec)
       THEN Finish(p, AlreadySavedId(loc[p].rec))
       ELSE Goto(p, "save_link_insert", loc[p].d, loc[p].rec)
    /\ UNCHANGED <<devices, recipes, links, users, session, now, client, req,
                   linkAtStart, savedOrder, justCleared>>

\* add SavedRecipe, commit; an IntegrityError is answered "Already saved"
SaveLinkInsert(p) ==
    /\ pc[p] = "save_link_insert"
    /\ IF LinkTaken(loc[p].d, loc[p].rec)
       THEN /\ Finish(p, AlreadySaved)
            /\ UNCHANGED <<links, savedOrder, justCleared>>
       ELSE /\ links' = links \cup
                   {[device_id_fk |-> loc[p].d, recipe_id_fk |-> loc[p].rec,
                     created_at |-> now]}
            /\ savedOrder' = [savedOrder EXCEPT ![loc[p].d] = Append(@, loc[p].rec)]
            /\ justCleared' = justCleared \ {loc[p].d}
            /\ Finish(p, SavedTrue(loc[p].rec))
    /\ UNCHANGED <<devices, recipes, users, session, now, client, req, linkAtStart>>

(***************************************************************************)
(* GET /api/history                                                        *)
(***************************************************************************)
\* the public fields of a Recipe row
Project(r) ==
    [id |-> r.id, title |-> r.title, desc |-> r.desc, time |-> r.time,
     serves |-> r.serves, level |-> r.level, img |-> r.img]

\* the results ORDER BY created_at DESC may give: rows of equal created_at in any order
Orderings(rows) ==
    {f \in [1..Cardinality(rows) -> rows] :
        /\ \A i, j \in 1..Cardinality(rows) : i # j => f[i] # f[j]
        /\ \A i, j \in 1..Cardinality(rows) : i < j => f[i].created_at >= f[j].created_at}

\* the list comprehension over the rows, after .limit(50)
HistoryOut(rows) ==
    [i \in 1..Len(Take(rows, HISTORY_LIMIT)) |-> Project(RecipeRow(rows[i].recipe_id_fk))]

HistoryStart(p, device_id) ==
    /\ Begin(p, [kind |-> "history", device_id |-> device_id])
    /\ IF FindDevice(device_id) = 0
       THEN Finish(p, [status |-> 200, recipes |-> <<>>])
       ELSE Goto(p, "history_query", FindDevice(device_id), 0)
    /\ UNCHANGED <<devices, recipes, links, users, session, now, client,
                   linkAtStart, savedOrder, justCleared>>

HistoryQuery(p) ==
    /\ pc[p] = "history_query"
    /\ \E rows \in Orderings(LinksOf(loc[p].d)) :
          Finish(p, [status |-> 200, recipes |-> HistoryOut(rows)])
    /\ UNCHANGED <<devices, recipes, links, users, session, now, client, req,
                   linkAtStart, savedOrder, justCleared>>

(***************************************************************************)
(* POST /api/clear                                                         *)
(***************************************************************************)
\* faulty variant: the bulk delete without its filter
ClearedEveryDevice(d) == links

\* query(SavedRecipe).filter_by(device_id_fk=d).delete(): the rows that go
Cleared(d) == {l \in links : l.device_id_fk = d}

ClearStart(p, device_id) ==
    /\ Begin(p, [kind |-> "clear", device_id |-> device_id])
    /\ IF device_id = "" \/ FindDevice(device_id) = 0
       THEN Finish(p, [status |-> 200, deleted |-> 0])
       ELSE Goto(p, "clear_delete", FindDevice(device_id), 0)
    /\ UNCHANGED <<devices, recipes, links, users, session, now, client,
                   linkAtStart, savedOrder, justCleared>>

ClearDelete(p) ==
    /\ pc[p] = "clear_delete"
    /\ links' = links \ Cleared(loc[p].d)
    /\ Finish(p, [status |-> 200, deleted |-> Cardinality(Cleared(loc[p].d))])
    /\ savedOrder' = [savedOrder EXCEPT ![loc[p].d] = <<>>]
    /\ justCleared' = justCleared \cup {loc[p].d}
    /\ UNCHANGED <<devices, recipes, users, session, now, client, req, linkAtStart>>

\* _remove_session: the request is over and the worker is free again
Teardown(p) ==
    /\ pc[p] = "done"
    /\ pc' = [pc EXCEPT ![p] = "idle"]
    /\ req' = [req EXCEPT ![p] = NoReq]
    /\ resp' = [resp EXCEPT ![p] = NoResp]
    /\ linkAtStart' = [linkAtStart EXCEPT ![p] = FALSE]
    /\ UNCHANGED <<devices, recipes, links, users, session, now, client, loc,
                   savedOrder, justCleared>>

\* utcnow advances
Tick ==
    /\ now < MaxClock
    /\ now' = now + 1
    /\ UNCHANGED <<devices, recipes, links, users, session, client, pc, req, loc, resp,
                   linkAtStart, savedOrder, justCleared>>

(***************************************************************************)
(* Specification of the recipe store                                       *)
(***************************************************************************)
DevicePks == 1..(Cardinality(DeviceIds) - 1)

Init ==
    /\ devices = {}
    /\ recipes = {}
    /\ links = {}
    /\ users = {}
    /\ session = [p \in Procs |-> 0]
    /\ now = 0
    /\ client = FALSE
    /\ pc = [p \in Procs |-> "idle"]
    /\ req = [p \in Procs |-> NoReq]
    /\ loc = [p \in Procs |-> NoLoc]
    /\ resp = [p \in Procs |-> NoResp]
    /\ linkAtStart = [p \in Procs |-> FALSE]
    /\ savedOrder = [d \in DevicePks |-> <<>>]
    /\ justCleared = {}

\* the handlers' steps on worker p, for requests that name the recipes `names`
Step(p, names) ==
    \/ \E device_id \in DeviceIds, name \in names : SaveStart(p, device_id, name)
    \/ SaveDeviceInsert(p)
    \/ SaveRecipeQuery(p)
    \/ SaveRecipeInsert(p)
    \/ SaveLinkQuery(p)
    \/ SaveLinkInsert(p)
    \/ \E device_id \in DeviceIds : HistoryStart(p, device_id)
    \/ HistoryQuery(p)
    \/ \E device_id \in DeviceIds : ClearStart(p, device_id)
    \/ ClearDelete(p)
    \/ Teardown(p)

\* requests of several clients handled at once, all for one recipe signature
Next == \E p \in Procs : Step(p, {"plain", "spaced"})

Spec == Init /\ [][Next]_vars

\* one worker handles one request to completion
NextSeq == Step("w1", RecipeNames) \/ Tick

SpecSeq == Init /\ [][NextSeq]_vars

(***************************************************************************)
(* Auth: /auth/signup, /auth/login, /auth/logout, /auth/me                 *)
(* Each worker serves one browser, which sends one request at a time and   *)
(* keeps the session cookie the responses set.                             *)
(***************************************************************************)
\* "email" as sent; <<>> stands for a missing or empty one
Emails == {<<>>, <<"a">>, <<" ", "A">>, <<"b">>}

\* "password" as sent; "" stands for a missing or empty one
Passwords == {"", "pw", "bad"}

\* "name" as sent
Names == {<<" ">> \o Str("n", 121)}

\* (data.get("email") or "").strip().lower()
NormalizeEmail(email) == Lower(Strip(email))

\* werkzeug's generate_password_hash / check_password_hash
generate_password_hash(password) == <<"hash", password>>

check_password_hash(pwhash, password) == pwhash = <<"hash", password>>

\* query(User).filter_by(email=email).first(); 0 when there is none
FindUser(email) ==
    IF \E u \in users : u.email = email
    THEN (CHOOSE u \in users : u.email = email).id
    ELSE 0

UserRow(id) == CHOOSE u \in users : u.id = id

\* User.email unique=True
EmailTaken(email) == \E u \in users : u.email = email

UserOut(u) == [id |-> u.id, name |-> u.name, email |-> u.email]

OkUser(u) == [status |-> 200, ok |-> TRUE, user |-> UserOut(u)]

InvalidCredentials == [status |-> 401, ok |-> FALSE, error |-> "invalid_credentials"]

EmailExists == [status |-> 409, ok |-> FALSE, error |-> "email_exists"]

MissingFields == [status |-> 400, ok |-> FALSE, error |-> "missing_fields"]

\* faulty variant: a login that tells an unknown email from a wrong password
LoginResponseTelling(uid, password) ==
    IF uid = 0
    THEN [status |-> 404, ok |-> FALSE, error |-> "no_such_user"]
    ELSE IF ~check_password_hash(UserRow(uid).password_hash, password)
    THEN InvalidCredentials
    ELSE OkUser(UserRow(uid))

\* the response of auth_login for the looked-up user id (0: none) and a password
LoginResponse(uid, password) ==
    IF uid = 0 \/ ~check_password_hash(UserRow(uid).password_hash, password)
    THEN InvalidCredentials
    ELSE OkUser(UserRow(uid))

\* field checks, then the lookup by normalized email
SignupStart(p, name, email, password) ==
    /\ Begin(p, [kind |-> "signup", name |-> name, email |-> email, password |-> password])
    /\ IF NormalizeEmail(email) = <<>> \/ password = ""
       THEN Finish(p, MissingFields)
       ELSE IF FindUser(NormalizeEmail(email)) # 0
       THEN Finish(p, EmailExists)
       ELSE /\ pc' = [pc EXCEPT ![p] = "signup_insert"]
            /\ UNCHANGED <<resp, loc>>
    /\ UNCHANGED <<devices, recipes, links, users, session, now, client,
                   linkAtStart, savedOrder, justCleared>>

\* add User, commit, refresh, bind the session; nothing catches an IntegrityError
SignupInsert(p) ==
    /\ pc[p] = "signup_insert"
    /\ LET email == NormalizeEmail(req[p].email)
           user  == [id |-> NextId(users),
                     name |-> Take(Strip(req[p].name), NAME_MAX),
                     email |-> email,
                     password_hash |-> generate_password_hash(req[p].password)]
       IN  IF EmailTaken(email)
           THEN /\ Finish(p, Unhandled500)
                /\ UNCHANGED <<users, session>>
           ELSE /\ users' = users \cup {user}
                /\ session' = [session EXCEPT ![p] = user.id]
                /\ Finish(p, OkUser(user))
    /\ UNCHANGED <<devices, recipes, links, now, client, req,
                   linkAtStart, savedOrder, justCleared>>

Login(p, email, password) ==
    /\ Begin(p, [kind |-> "login", email |-> email, password |-> password])
    /\ LET uid      == FindUser(NormalizeEmail(email))
           response == LoginResponse(uid, password)
       IN  /\ Finish(p, response)
           /\ session' = IF response.ok THEN [session EXCEPT ![p] = uid] ELSE session
    /\ UNCHANGED <<devices, recipes, links, users, now, client,
                   linkAtStart, savedOrder, justCleared>>

\* session.pop("uid", None)
Logout(p) ==
    /\ Begin(p, [kind |-> "logout"])
    /\ session' = [session EXCEPT ![p] = 0]
    /\ Finish(p, [status |-> 200, ok |-> TRUE])
    /\ UNCHANGED <<devices, recipes, links, users, now, client,
                   linkAtStart, savedOrder, justCleared>>

\* the user of the session's uid; None without a uid or without that row
current_user(p) ==
    IF session[p] # 0 /\ \E u \in users : u.id = session[p] THEN session[p] ELSE 0

Me(p) ==
    /\ Begin(p, [kind |-> "me"])
    /\ IF current_user(p) # 0
       THEN Finish(p, OkUser(UserRow(current_user(p))))
       ELSE Finish(p, [status |-> 200, ok |-> FALSE])
    /\ UNCHANGED <<devices, recipes, links, users, session, now, client,
                   linkAtStart, savedOrder, justCleared>>

AuthStep(p) ==
    \/ \E name \in Names, email \in Emails, password \in Passwords :
          SignupStart(p, name, email, password)
    \/ SignupInsert(p)
    \/ \E email \in Emails, password \in Passwords : Login(p, email, password)
    \/ Logout(p)
    \/ Me(p)
    \/ Teardown(p)

NextAuth == \E p \in Procs : AuthStep(p)

SpecAuth == Init /\ [][NextAuth]_vars

(***************************************************************************)
(* POST /api/suggest                                                       *)
(* JSON values as Python sees them, tagged by type.  Text that is only     *)
(* passed along (descriptions, image URLs) is written as whole chunks,     *)
(* text that is sliced or measured as single characters.                   *)
(***************************************************************************)
MaxItems == 4

PNone == [t |-> "none"]

PInt(n) == [t |-> "int", v |-> n]

\* a float, in tenths; finite is FALSE for inf and nan
PFloat(tenths, finite) == [t |-> "float", tenths |-> tenths, finite |-> finite]

PStr(s) == [t |-> "str", s |-> s]

PList(items) == [t |-> "list", items |-> items]

PDict(d) == [t |-> "dict", d |-> d]

\* the value an expression has when evaluating it raises
Raised == [t |-> "raise"]

IsRaised(x) == "t" \in DOMAIN x /\ x.t = "raise"

\* bool(x)
Truthy(x) ==
    CASE x.t = "none"  -> FALSE
      [] x.t = "int"   -> x.v # 0
      [] x.t = "float" -> ~x.finite \/ x.tenths # 0
      [] x.t = "str"   -> x.s # <<>>
      [] x.t = "list"  -> x.items # <<>>
      [] x.t = "dict"  -> DOMAIN x.d # {}

\* x or default
PyOr(x, default) == IF Truthy(x) THEN x ELSE default

\* x.get(key); AttributeError unless x is a dict
PyGet(x, key) ==
    IF x.t # "dict" THEN Raised
    ELSE IF key \in DOMAIN x.d THEN x.d[key] ELSE PNone

\* x[:n]; TypeError unless x is a string or a list
PySlice(x, n) ==
    CASE x.t = "str"  -> PStr(Take(x.s, n))
      [] x.t = "list" -> PList(Take(x.items, n))
      [] OTHER        -> Raised

Digits == {"0", "1", "2", "3", "4", "5", "6", "7", "8", "9"}

DigitValue(c) ==
    CASE c = "0" -> 0 [] c = "1" -> 1 [] c = "2" -> 2 [] c = "3" -> 3 [] c = "4" -> 4
      [] c = "5" -> 5 [] c = "6" -> 6 [] c = "7" -> 7 [] c = "8" -> 8 [] c = "9" -> 9

RECURSIVE DecimalValue(_)
DecimalValue(ds) ==
    IF ds = <<>> THEN 0
    ELSE 10 * DecimalValue(SubSeq(ds, 1, Len(ds) - 1)) + DigitValue(ds[Len(ds)])

\* int(x): truncates a float, parses a string, raises on anything else
PyInt(x) ==
    CASE x.t = "int" -> x
      [] x.t = "float" ->
            IF ~x.finite THEN Raised
            ELSE PInt(IF x.tenths >= 0 THEN x.tenths \div 10 ELSE -((-x.tenths) \div 10))
      [] x.t = "str" ->
            LET text == Strip(x.s)
                neg  == text # <<>> /\ text[1] = "-"
                ds   == IF neg THEN Tail(text) ELSE text
            IN  IF ds = <<>> \/ \E i \in 1..Len(ds) : ds[i] \notin Digits
                THEN Raised
                ELSE PInt(IF neg THEN -DecimalValue(ds) ELSE DecimalValue(ds))
      [] OTHER -> Raised

\* ", ".join(parts)
RECURSIVE Join(_)
Join(parts) ==
    IF parts = <<>> THEN <<>>
    ELSE IF Len(parts) = 1 THEN parts[1]
    ELSE parts[1] \o <<", ">> \o Join(Tail(parts))

Candidate(title, desc, time, serves, level, img) ==
    [title |-> title, desc |-> desc, time |-> time, serves |-> serves,
     level |-> level, img |-> img]

demo_recipes(ings) ==
    LET base == OrElse(Join(Take(ings, 3)), <<"simple pantry items">>)
    IN  << Candidate(PStr(<<"Q", "u", "i", "c", "k", " ", "S", "k", "i", "l", "l", "e", "t", " ", "B", "o", "w", "l">>),
                     PStr(<<"One-pan weeknight bowl using ">> \o base \o <<".">>),
                     PInt(22), PInt(3), PStr(<<"E", "a", "s", "y">>),
                     PStr(<<"https://placehold.co/800x500?text=Recipe+Photo">>)),
           Candidate(PStr(<<"C", "r", "e", "a", "m", "y", " ", "P", "a", "s", "t", "a", " ", "T", "o", "s", "s">>),
                     PStr(<<"Comforting pasta with ">> \o base \o <<".">>),
                     PInt(28), PInt(2), PStr(<<"E", "a", "s", "y">>),
                     PStr(<<"https://placehold.co/800x500?text=Tasty+Dish">>)),
           Candidate(PStr(<<"V", "e", "g", "g", "i", "e", " ", "S", "t", "i", "r", "-", "F", "r", "y">>),
                     PStr(<<"Colorful stir-fry built around ">> \o base \o <<".">>),
                     PInt(18), PInt(2), PStr(<<"M", "e", "d", "i", "u", "m">>),
                     PStr(<<"https://placehold.co/800x500?text=Yum">>)) >>

\* the dict appended for one element r of the provider's list; Raised when
\* building it raises
FromProvider(r) ==
    IF r.t # "dict" THEN Raised ELSE
    LET title  == PySlice(PyOr(PyGet(r, "title"), PStr(<<"T", "a", "s", "t", "y", " ", "D", "i", "s", "h">>)), TITLE_MAX)
        desc   == PyOr(PyGet(r, "desc"), PStr(<<"A quick, pantry-friendly idea.">>))
        time   == PyInt(PyOr(PyGet(r, "time"), PInt(DEFAULT_TIME)))
        serves == PyInt(PyOr(PyGet(r, "serves"), PInt(DEFAULT_SERVES)))
        level  == PySlice(PyOr(PyGet(r, "level"), PStr(<<"E", "a", "s", "y">>)), LEVEL_MAX)
        img    == PyOr(PyGet(r, "img"), PStr(<<"https://placehold.co/800x500?text=Recipe">>))
    IN  IF IsRaised(title) \/ IsRaised(time) \/ IsRaised(serves) \/ IsRaised(level)
        THEN Raised
        ELSE Candidate(title, desc, time, serves, level, img)

\* faulty variant: no padding from the local generator
NoPad(out, ings) == out

\* while len(recipes) < 3: recipes.append(demo_recipes(ingredients)[len(recipes)])
RECURSIVE Pad(_, _)
Pad(out, ings) ==
    IF Len(out) < 3
    THEN Pad(Append(out, demo_recipes(ings)[Len(out) + 1]), ings)
    ELSE out

\* the "recipes" of the response for what the provider call gave:
\* [kind |-> "raise"], [kind |-> "unparsable"] or [kind |-> "json", payload |-> ...]
FromOutcome(outcome, ings) ==
    IF outcome.kind # "json" THEN demo_recipes(ings)
    ELSE
    LET found == PyGet(outcome.payload, "recipes")
        first == IF IsRaised(found) THEN Raised ELSE PySlice(PyOr(found, PList(<<>>)), 3)
        \* iterating a string gives its characters, which have no .get
        elems == CASE first.t = "str"  -> [i \in 1..Len(first.s) |-> PStr(<<first.s[i]>>)]
                   [] first.t = "list" -> first.items
                   [] OTHER            -> <<>>
        built == [i \in 1..Len(elems) |-> FromProvider(elems[i])]
    IN  IF IsRaised(first) \/ \E i \in 1..Len(built) : IsRaised(built[i])
        THEN demo_recipes(ings)
        ELSE Pad(built, ings)

\* [s.strip() for s in ... if isinstance(s, str) and s.strip()]
RECURSIVE Ingredients(_)
Ingredients(given) ==
    IF given = <<>> THEN <<>>
    ELSE IF given[1].t = "str" /\ Strip(given[1].s) # <<>>
    THEN <<Strip(given[1].s)>> \o Ingredients(Tail(given))
    ELSE Ingredients(Tail(given))

\* the "ingredients" lists of the requests
IngredientInputs ==
    << <<>>,
       <<PStr(<<" ", " ">>)>>,
       <<PInt(5)>>,
       <<PStr(<<" ", "e", "g", "g">>)>>,
       <<PStr(<<"e", "g", "g">>), PNone, PStr(<<"r", "i", "c", "e", " ">>)>>,
       <<PStr(<<"e", "g", "g">>), PStr(<<"r", "i", "c", "e">>), PStr(<<"o", "i", "l">>),
         PStr(<<"s", "a", "l", "t">>)>> >>

Field(key, value) == [k \in {key} |-> value]

\* elements the provider may put in its "recipes" list
Items ==
    << PDict([title |-> PStr(Soup), desc |-> PStr(<<"warm">>), time |-> PInt(25),
              serves |-> PInt(3), level |-> PStr(<<"H", "a", "r", "d">>),
              img |-> PStr(<<"https://x/y.png">>)]),
       PDict([k \in {} |-> PNone]),
       PDict([title |-> PStr(Str("t", 201)), level |-> PStr(Str("l", 17)),
              time |-> PStr(<<" ", "3", "0">>), serves |-> PFloat(25, TRUE)]),
       PDict([title |-> PStr(Soup), time |-> PInt(-5), serves |-> PFloat(5, TRUE)]),
       PDict([title |-> PStr(Soup), time |-> PStr(<<"s", "o", "o", "n">>)]),
       PDict([title |-> PInt(7)]),
       PInt(7) >>

ItemLists ==
    UNION {{[i \in 1..n |-> Items[f[i]]] : f \in [1..n -> 1..Len(Items)]} : n \in 0..MaxItems}

\* what the "recipes" key of the provider's object may hold, besides a list
OddRecipes ==
    << PNone, PInt(0), PInt(5), PStr(<<"a", "b">>), PDict(Field("a", PInt(1))),
       PFloat(0, FALSE) >>

\* what json.loads may return, besides an object with a "recipes" list
OddPayloads == << PNone, PList(<<>>), PInt(3), PDict([k \in {} |-> PNone]) >>

Json(payload) == [kind |-> "json", payload |-> payload]

\* the request is parsed, the provider call gives `outcome`, the handler responds
Suggest(p, given, outcome) ==
    /\ Begin(p, [kind |-> "suggest", ingredients |-> given, provider |-> outcome])
    /\ LET ings == Ingredients(given)
       IN  IF ings = <<>>
           THEN Finish(p, [status |-> 400, error |-> "No ingredients provided."])
           ELSE IF ~client
           THEN Finish(p, [status |-> 200, recipes |-> demo_recipes(ings)])
           ELSE Finish(p, [status |-> 200, recipes |-> FromOutcome(outcome, ings)])
    /\ UNCHANGED <<devices, recipes, links, users, session, now, client,
                   linkAtStart, savedOrder, justCleared>>

\* what the provider call may give
ProviderOutcomes ==
    {[kind |-> "raise"], [kind |-> "unparsable"]}
    \cup {Json(OddPayloads[i]) : i \in 1..Len(OddPayloads)}
    \cup {Json(PDict(Field("recipes", OddRecipes[i]))) : i \in 1..Len(OddRecipes)}
    \cup {Json(PDict(Field("recipes", PList(items)))) : items \in ItemLists}

SuggestStep(p) ==
    \/ /\ pc[p] = "idle"
       /\ \E g \in 1..Len(IngredientInputs), outcome \in ProviderOutcomes :
             Suggest(p, IngredientInputs[g], outcome)
    \/ Teardown(p)

NextSuggest == SuggestStep("w1")

\* OPENAI_API_KEY may or may not be set when the server starts
InitSuggest ==
    /\ client \in BOOLEAN
    /\ devices = {} /\ recipes = {} /\ links = {} /\ users = {}
    /\ session = [p \in Procs |-> 0]
    /\ now = 0
    /\ pc = [p \in Procs |-> "idle"]
    /\ req = [p \in Procs |-> NoReq]
    /\ loc = [p \in Procs |-> NoLoc]
    /\ resp = [p \in Procs |-> NoResp]
    /\ linkAtStart = [p \in Procs |-> FALSE]
    /\ savedOrder = [d \in DevicePks |-> <<>>]
    /\ justCleared = {}

SpecSuggest == InitSuggest /\ [][NextSuggest]_vars

(***************************************************************************)
(* Properties of the recipe store                                          *)
(***************************************************************************)
\* the step in which worker p's handler returns its response
Responded(p) == pc[p] # "done" /\ pc'[p] = "done"

IsSave(r) == r.kind = "save" /\ r.device_id # ""

\* C1: two save requests of one device_id and one recipe content never end in a
\* 500: when no link existed before either, one answers saved:true and the
\* other "Already saved", and exactly one link of that (device, recipe) pair
\* exists afterwards.
C1_RacingSavesNeverFail ==
    \A p, q \in Procs :
        (/\ p # q
         /\ pc[p] = "done" /\ pc[q] = "done"
         /\ IsSave(req[p]) /\ IsSave(req[q])
         /\ req[p].device_id = req[q].device_id
         /\ req[p].recipe = req[q].recipe)
        => /\ resp[p].status # 500 /\ resp[q].status # 500
           /\ (~linkAtStart[p] /\ ~linkAtStart[q])
                 => \E a, b \in {p, q} :
                       /\ a # b
                       /\ resp[a] = SavedTrue(RecipePk(recipes, req[a].recipe))
                       /\ resp[b].status = 200 /\ resp[b].saved = FALSE
                       /\ resp[b].message = "Already saved"
           /\ Cardinality({l \in links :
                 /\ l.device_id_fk = DevicePk(devices, req[p].device_id)
                 /\ l.recipe_id_fk = RecipePk(recipes, req[p].recipe)}) = 1

\* C2: a save that runs alone and finds no link of its device to its recipe
\* answers saved:true with the id of the Recipe row of its signature and leaves
\* that link in storage; the same save again finds the link, answers saved:false
\* "Already saved" with that same recipe_id, and changes no table.  Recipe rows
\* are never removed or renumbered, so the two ids are the same.
C2_SaveTwice ==
    [][\A p \in Procs :
          /\ recipes \subseteq recipes'
          /\ (IsSave(req'[p]) /\ pc'[p] # "idle" /\ linkAtStart'[p])
                => <<devices, recipes, links>>' = <<devices, recipes, links>>
          /\ (Responded(p) /\ IsSave(req'[p]))
                => LET d   == DevicePk(devices', req'[p].device_id)
                       rec == RecipePk(recipes', req'[p].recipe)
                   IN  IF linkAtStart'[p]
                       THEN resp'[p] = AlreadySavedId(rec)
                       ELSE /\ resp'[p] = SavedTrue(rec)
                            /\ rec # 0
                            /\ d # 0
                            /\ Linked(links', d, rec)
      ]_vars

C2_Witness ==
    \E p \in Procs :
        /\ pc[p] = "done" /\ IsSave(req[p]) /\ linkAtStart[p]
        /\ resp[p] = AlreadySavedId(RecipePk(recipes, req[p].recipe))

C6_Clear ==
    [][\A p \in Procs :
          /\ (req'[p].kind = "clear" /\ ~Responded(p))
                => <<devices, recipes, links>>' = <<devices, recipes, links>>
          /\ (Responded(p) /\ req'[p].kind = "clear")
                => LET d == DevicePk(devices, req'[p].device_id)
                   IN  /\ resp'[p].status = 200
                       /\ devices' = devices /\ recipes' = recipes
                       /\ IF req'[p].device_id = "" \/ d = 0
                          THEN resp'[p].deleted = 0 /\ links' = links
                          ELSE /\ links' = {l \in links : l.device_id_fk # d}
                               /\ resp'[p].deleted =
                                     Cardinality({l \in links : l.device_id_fk = d})
                               /\ d \in justCleared
                                     => resp'[p].deleted = 0 /\ links' = links
      ]_vars

C6_Witness ==
    \E p \in Procs :
        /\ pc[p] = "done" /\ req[p].kind = "clear" /\ resp[p].deleted >= 1
        /\ links # {}

\* C7: history of a device returns exactly the recipes linked to it, the 50 most
\* recently saved, newest save first; an unknown device_id gives an empty list.
C7_HistoryNewestFirst ==
    [][\A p \in Procs :
          (Responded(p) /\ req'[p].kind = "history")
             => LET d     == DevicePk(devices, req'[p].device_id)
                    saved == IF d = 0 THEN <<>> ELSE savedOrder[d]
                    n     == Len(saved)
                    newest == [i \in 1..n |->
                                 Project(CHOOSE r \in recipes : r.id = saved[n + 1 - i])]
                IN  /\ resp'[p].status = 200
                    /\ resp'[p].recipes = Take(newest, HISTORY_LIMIT)
      ]_vars

\* C10: whenever save answers "Already saved", the link of the requesting device
\* to the Recipe row of the request's signature is in storage at that moment.
C10_AlreadySavedMeansLinked ==
    [][\A p \in Procs :
          (/\ Responded(p) /\ IsSave(req'[p])
           /\ resp'[p].status = 200 /\ resp'[p].saved = FALSE)
             => LET d   == DevicePk(devices', req'[p].device_id)
                    rec == RecipePk(recipes', req'[p].recipe)
                IN  d # 0 /\ rec # 0 /\ Linked(links', d, rec)
      ]_vars

(***************************************************************************)
(* Properties of /api/suggest                                              *)
(***************************************************************************)
CandidateKeys == {"title", "desc", "time", "serves", "level", "img"}

\* C4: for ingredients that are not all filtered away, suggest answers 200
\* with exactly three candidates, whatever the provider call gave.
C4_AlwaysThree ==
    \A p \in Procs :
        (/\ pc[p] = "done" /\ req[p].kind = "suggest"
         /\ Ingredients(req[p].ingredients) # <<>>)
        => /\ resp[p].status = 200
           /\ Len(resp[p].recipes) = 3
           /\ \A i \in 1..3 : DOMAIN resp[p].recipes[i] = CandidateKeys

\* the provider gave one usable recipe and the local generator filled the rest
C4_Witness ==
    \E p \in Procs :
        /\ client /\ pc[p] = "done" /\ req[p].kind = "suggest"
        /\ req[p].provider = Json(PDict(Field("recipes", PList(<<Items[1]>>))))
        /\ resp[p].status = 200
        /\ Len(resp[p].recipes) = 3
        /\ resp[p].recipes[1].title = PStr(Soup)
        /\ resp[p].recipes[3].time = PInt(18)

\* C5: every candidate suggest returns has a non-empty title of at most 200
\* characters, a level of at most 16 characters, serves >= 1 and a positive
\* whole number of minutes, for any values in the provider's fields.
C5_CandidatesSane ==
    \A p \in Procs :
        (pc[p] = "done" /\ req[p].kind = "suggest" /\ resp[p].status = 200)
        => \A i \in 1..Len(resp[p].recipes) :
              LET r == resp[p].recipes[i]
              IN  /\ r.title.t = "str" /\ Len(r.title.s) >= 1 /\ Len(r.title.s) <= 200
                  /\ r.level.t = "str" /\ Len(r.level.s) <= 16
                  /\ r.serves.t = "int" /\ r.serves.v >= 1
                  /\ r.time.t = "int" /\ r.time.v >= 1

(***************************************************************************)
(* Properties of /auth                                                     *)
(***************************************************************************)
CaseFold(email) == Lower(Strip(email))

\* C8: a signup whose fields are present and whose email is registered already
\* (compared case-insensitively, trimmed) answers 409, adds no User row and
\* binds no session; no two User rows have case-insensitively equal emails and
\* no signup ends in a 500, also when two signups race.
C8_SignupConflict ==
    [][/\ \A u1, u2 \in users' : CaseFold(u1.email) = CaseFold(u2.email) => u1 = u2
       /\ \A p \in Procs :
             (Responded(p) /\ req'[p].kind = "signup")
                => /\ resp'[p].status # 500
                   /\ (/\ req'[p].password # ""
                       /\ \E u \in users : CaseFold(u.email) = CaseFold(req'[p].email))
                         => /\ resp'[p] = EmailExists
                            /\ users' = users
                            /\ session' = session
      ]_vars

\* C9: login with an unknown email and login with a wrong password answer the
\* same 401 invalid_credentials and leave every session as it is; a session
\* changes only when its browser's login or signup succeeds (to that user) or
\* on its logout (to none); logout always answers ok; me reports a user exactly
\* when the session is bound.
C9_LoginAndSession ==
    [][\A p \in Procs :
          /\ (Responded(p) /\ req'[p].kind = "login")
                => LET known == {u \in users : u.email = CaseFold(req'[p].email)}
                       good  == {u \in known : u.password_hash = <<"hash", req'[p].password>>}
                   IN  IF good = {}
                       THEN resp'[p] = InvalidCredentials /\ session' = session
                       ELSE /\ resp'[p].status = 200 /\ resp'[p].ok
                            /\ resp'[p].user.id \in {u.id : u \in good}
                            /\ session'[p] = resp'[p].user.id
          /\ session'[p] # session[p]
                => /\ Responded(p)
                   /\ \/ /\ req'[p].kind \in {"login", "signup"}
                         /\ resp'[p].status = 200 /\ resp'[p].ok
                         /\ session'[p] = resp'[p].user.id
                      \/ req'[p].kind = "logout" /\ session'[p] = 0
          /\ (Responded(p) /\ req'[p].kind = "logout")
                => /\ resp'[p] = [status |-> 200, ok |-> TRUE]
                   /\ session'[p] = 0
          /\ (Responded(p) /\ req'[p].kind = "me")
                => /\ resp'[p].status = 200
                   /\ resp'[p].ok <=> session[p] # 0
                   /\ session' = session
      ]_vars

\* a logged-in browser fails a login with a wrong password and stays bound
C9_Witness ==
    \E p \in Procs :
        /\ pc[p] = "done" /\ req[p].kind = "login"
        /\ resp[p] = InvalidCredentials
        /\ \E u \in users : u.email = CaseFold(req[p].email)
        /\ session[p] # 0

====
